---- MODULE Spec2Model ----
(***************************************************************************)
(* FaceShapeBot (src/bot.py): per-chat session dictionary (user_data),     *)
(* text / photo / callback routing, the credit balance used by the         *)
(* hairstyle try-on and the payment reconciliation entry points.           *)
(*                                                                         *)
(* Conventions.                                                            *)
(*  - user_data[c] is a record; a key that is absent from the Python dict  *)
(*    is FALSE for a wait flag, "None" for current_feature, "absent" for   *)
(*    customization_state and 0 for image_data / face_shape / landmarks /  *)
(*    selected_package.  A chat that is not in user_data is EmptySession   *)
(*    (every read in the code is .get() or guarded by `in`).               *)
(*  - image_data holds the id of the stored photo; face_shape and          *)
(*    landmarks hold the id of the photo they were computed from.          *)
(*  - the database module (get_user_credits, update_user_credits,          *)
(*    use_credit, create_transaction, complete_transaction) is not part of *)
(*    src/; it is modelled in the Db* operators.                           *)
(***************************************************************************)
EXTENDS Integers, FiniteSets, Sequences, TLC

\* ---------------------------------------------------------------- bounds
MaxBalance == 10
NumHairstyles == 5

\* ------------------------------------------------------ program constants
Cost == 2
DefaultCredits == 5
NumPackages == 3

\* ------------------------------------------------------------ input sets
AllChats == {1, 2}

\* Payment ids: a Stripe checkout session, a Crypto Bot invoice (the ids
\* _create_payment can be given by the providers) and a Stripe payment
\* link id, which only ever arrives in a deep link.
StripeIds == {"cs_1"}
CryptoIds == {"inv_1"}
LinkIds == {"pl_1"}
PaymentIds == StripeIds \cup CryptoIds \cup LinkIds

WaitFlags ==
  { "waiting_for_text_prompt", "waiting_for_replace_prompt",
    "waiting_for_background_prompt", "waiting_for_style_choice",
    "waiting_for_style_image", "waiting_for_payment_method",
    "waiting_for_package_selection", "waiting_for_hairstyle_selection" }

ColorNames == {"white"}
DigitTexts == {"1", "2", "3", "5", "6", "7", "9"}

IsDigit(t) == t \in DigitTexts
StartsWithSlash(t) == t = "/x"
IntOf(t) ==
  CASE t = "1" -> 1 [] t = "2" -> 2 [] t = "3" -> 3 [] t = "5" -> 5
    [] t = "6" -> 6 [] t = "7" -> 7 [] t = "9" -> 9 [] OTHER -> 0

VARIABLES user_data, credits, users, transactions, provider, last, running,
          get_prompts

vars == <<user_data, credits, users, transactions, provider, last, running,
          get_prompts>>

\* Handler invocations that are under way at the same time: a worker is a
\* thread inside a handler that has given up control at a call of a
\* collaborator or of the database.  `running[w]` is what that handler
\* holds in its local variables.  With one worker busy at a time the
\* handlers run one after another.
Workers == {1, 2}
Idle ==
  [ at |-> "idle", handler |-> "none", chat |-> 0, pid |-> "none",
    found |-> FALSE, read |-> 0, k |-> 0, saved |-> "none" ]

\* ------------------------------------------------------------- sessions
EmptySession ==
  [ current_feature |-> "None",
    waiting_for_text_prompt |-> FALSE,
    waiting_for_replace_prompt |-> FALSE,
    waiting_for_background_prompt |-> FALSE,
    waiting_for_style_choice |-> FALSE,
    waiting_for_style_image |-> FALSE,
    waiting_for_payment_method |-> FALSE,
    waiting_for_package_selection |-> FALSE,
    waiting_for_hairstyle_selection |-> FALSE,
    awaiting_analysis_method |-> FALSE,
    customization_state |-> "absent",
    image_data |-> 0,
    face_shape |-> 0,
    landmarks |-> 0,
    replace_prompt |-> FALSE,
    selected_payment_method |-> "none",
    selected_package |-> 0 ]

Sess(c) == user_data[c]

\* A reset that forgets to clear current_feature.
ResetKeepingFeature(s) ==
  [ s EXCEPT !.waiting_for_text_prompt = FALSE,
             !.waiting_for_replace_prompt = FALSE,
             !.waiting_for_background_prompt = FALSE,
             !.waiting_for_style_choice = FALSE,
             !.waiting_for_style_image = FALSE,
             !.waiting_for_payment_method = FALSE,
             !.waiting_for_package_selection = FALSE,
             !.waiting_for_hairstyle_selection = FALSE ]

\* FaceShapeBot._reset_all_waiting_states: the eight listed flags become
\* False and current_feature becomes None; nothing else is written
\* (customization_state and awaiting_analysis_method are not in the list).
ResetAllWaitingStates(s) ==
  [ s EXCEPT !.waiting_for_text_prompt = FALSE,
             !.waiting_for_replace_prompt = FALSE,
             !.waiting_for_background_prompt = FALSE,
             !.waiting_for_style_choice = FALSE,
             !.waiting_for_style_image = FALSE,
             !.waiting_for_payment_method = FALSE,
             !.waiting_for_package_selection = FALSE,
             !.waiting_for_hairstyle_selection = FALSE,
             !.current_feature = "None" ]

\* The ghost record of the handler that ran last: which handler and route,
\* for which chat, the replies it sent, the provider status its status check
\* returned ("unchecked" when it made none), the outcome of the hairstyle
\* collaborator ("none" when not invoked), whether use_credit was called,
\* the payment id a reconciliation step was about and, for /start, the wait
\* flags and the feature that were set when the command arrived.
Did(op, c, replies) ==
  [ op |-> op, chat |-> c, replies |-> replies, checked |-> "unchecked",
    gen |-> "none", charge |-> FALSE, pid |-> "none",
    was |-> <<"None", {}>> ]

WaitsOf(s) == {f \in WaitFlags : s[f]}

Ledger == <<credits, users, transactions, provider>>

\* ------------------------------------------------------ plain commands
\* FaceShapeBot.menu_command
MenuSession(s) == ResetAllWaitingStates(s)

MenuCommand(c) ==
  /\ user_data' = [user_data EXCEPT ![c] = MenuSession(Sess(c))]
  /\ last' = Did("menu", c, {"menu"})
  /\ UNCHANGED Ledger
  /\ UNCHANGED <<running, get_prompts>>

\* FaceShapeBot.help_command
HelpCommand(c) ==
  /\ last' = Did("help", c, {"help"})
  /\ UNCHANGED <<user_data, Ledger>>
  /\ UNCHANGED <<running, get_prompts>>

\* FaceShapeBot.credits_command: reads the balance, writes nothing
CreditsCommand(c) ==
  /\ last' = Did("credits", c, {"credits_info"})
  /\ UNCHANGED <<user_data, Ledger>>
  /\ UNCHANGED <<running, get_prompts>>

\* A /reset that empties user_data as a whole.
ResetCommandEveryone(c) ==
  /\ user_data' = [b \in AllChats |-> EmptySession]
  /\ last' = Did("reset", c, {"reset_done"})
  /\ UNCHANGED Ledger
  /\ UNCHANGED <<running, get_prompts>>

\* A /reset that clears the wait flags and the active feature only, as
\* _reset_all_waiting_states does, and keeps the analysed photo.
ResetCommandKeepingAnalysis(c) ==
  /\ user_data' = [user_data EXCEPT ![c] = ResetAllWaitingStates(Sess(c))]
  /\ last' = Did("reset", c, {"reset_done"})
  /\ UNCHANGED Ledger
  /\ UNCHANGED <<running, get_prompts>>

\* FaceShapeBot.reset_command: user_data.pop(chat_id)
ResetCommand(c) ==
  /\ user_data' = [user_data EXCEPT ![c] = EmptySession]
  /\ last' = Did("reset", c, {"reset_done"})
  /\ UNCHANGED Ledger
  /\ UNCHANGED <<running, get_prompts>>

\* FaceShapeBot.faceshape_command: current_feature = "2" and
\* awaiting_analysis_method = True; no call of _reset_all_waiting_states.
FaceshapeSession(s) ==
  [ s EXCEPT !.current_feature = "2", !.awaiting_analysis_method = TRUE ]

FaceshapeCommand(c) ==
  /\ user_data' = [user_data EXCEPT ![c] = FaceshapeSession(Sess(c))]
  /\ last' = Did("faceshape", c, {"choose_analysis_method"})
  /\ UNCHANGED Ledger
  /\ UNCHANGED <<running, get_prompts>>

\* FaceShapeBot.symmetry_command.  A direct call (feature is not "3" or no
\* stored image) drops the stored image, resets and enters feature "3".
\* Otherwise the stored image is analysed: `res` is the analyser's outcome.
SymmetrySession(s, res) ==
  IF s.current_feature # "3" \/ s.image_data = 0
    THEN [ ResetAllWaitingStates([s EXCEPT !.image_data = 0])
             EXCEPT !.current_feature = "3" ]
    ELSE IF res = "ok" THEN [s EXCEPT !.current_feature = "None"] ELSE s

SymmetryCommand(c) ==
  \E res \in {"ok", "no_face", "raised"} :
    /\ (Sess(c).current_feature # "3" \/ Sess(c).image_data = 0) => res = "ok"
    /\ user_data' = [user_data EXCEPT ![c] = SymmetrySession(Sess(c), res)]
    /\ last' = Did("symmetry", c,
                   IF Sess(c).current_feature # "3" \/ Sess(c).image_data = 0
                     THEN {"symmetry_info"}
                     ELSE IF res = "ok" THEN {"symmetry_result"}
                          ELSE IF res = "no_face" THEN {"no_face"}
                          ELSE {"symmetry_error"})
    /\ UNCHANGED Ledger
    /\ UNCHANGED <<running, get_prompts>>

\* FaceShapeBot.beauty_command
BeautySession(s) ==
  [ ResetAllWaitingStates([s EXCEPT !.image_data = 0])
      EXCEPT !.current_feature = "4" ]

BeautyCommand(c) ==
  /\ user_data' = [user_data EXCEPT ![c] = BeautySession(Sess(c))]
  /\ last' = Did("beauty", c, {"beauty_info"})
  /\ UNCHANGED Ledger
  /\ UNCHANGED <<running, get_prompts>>

\* FaceShapeBot.video_command: current_feature = "video" is written first
\* and the reset that follows sets it back to None.
VideoSession(s) ==
  ResetAllWaitingStates([s EXCEPT !.current_feature = "video"])

VideoCommand(c) ==
  /\ user_data' = [user_data EXCEPT ![c] = VideoSession(Sess(c))]
  /\ last' = Did("analyze_video", c, {"video_info"})
  /\ UNCHANGED Ledger
  /\ UNCHANGED <<running, get_prompts>>

\* FaceShapeBot.list_hairstyles_command: reads face_shape only
HairstylesCommand(c) ==
  /\ last' = Did("hairstyles", c,
                 IF Sess(c).face_shape = 0 THEN {"no_photo_yet"}
                                           ELSE {"hairstyle_list"})
  /\ UNCHANGED <<user_data, Ledger>>
  /\ UNCHANGED <<running, get_prompts>>

\* -------------------------------------------------- hairstyle try-on
\* A handler's effect on the session together with the replies it sends.
Out(s, r) == [s |-> s, r |-> r]

\* PREMIUM_MESSAGES["not_enough_credits"].format(credits=..., cost=...):
\* the reply carries the two numbers it was formatted with.
NotEnoughCreditsMessage(credits_, cost) ==
  "not_enough_credits:credits=" \o ToString(credits_)
    \o ",cost=" \o ToString(cost)

\* A /try that warns about the balance and opens the selection anyway.
TryHairstyleWarnOnly(s, bal) ==
  IF s.face_shape = 0 THEN Out(s, {"no_photo_yet"})
  ELSE Out([s EXCEPT !.waiting_for_hairstyle_selection = TRUE,
                     !.customization_state = "selecting_gender"],
           IF bal < Cost
             THEN {NotEnoughCreditsMessage(bal, Cost), "premium_features"}
             ELSE {"choose_gender"})

\* A /try that opens the selection without looking at the balance.
TryHairstyleNoCheck(s, bal) ==
  IF s.face_shape = 0 THEN Out(s, {"no_photo_yet"})
  ELSE Out([s EXCEPT !.waiting_for_hairstyle_selection = TRUE,
                     !.customization_state = "selecting_gender"],
           {"choose_gender"})

\* FaceShapeBot.try_hairstyle_command: needs a face shape, then
\* get_user_credits(chat_id) >= cost (cost = 2) before it opens the
\* selection; no call of _reset_all_waiting_states.
TryHairstyle(s, bal) ==
  IF s.face_shape = 0 THEN Out(s, {"no_photo_yet"})
  ELSE IF bal < Cost
    THEN Out(s, {NotEnoughCreditsMessage(bal, Cost), "premium_features"})
    ELSE Out([s EXCEPT !.waiting_for_hairstyle_selection = TRUE,
                       !.customization_state = "selecting_gender"],
             {"choose_gender"})

\* What lightx_client.get_hairstyle_prompts_by_face_shape is while
\* generate_hairstyle is inside apply_hairstyle: the temporary override
TempGetPrompts == "temp"

\* A generation that puts the saved function back after apply_hairstyle
\* has answered, not in a finally: an exception leaves the override.
GetPromptsRestoredAfterAnswer(f, res) ==
  LET original_get_prompts == f
      during == TempGetPrompts
  IN IF res = "raised" THEN during ELSE original_get_prompts

\* generate_hairstyle's handling of the shared collaborator's
\* get_hairstyle_prompts_by_face_shape, `f` being what it is on entry: it
\* is saved, the override is installed for the call of apply_hairstyle,
\* and the finally puts the saved function back whatever the call did.
GetPromptsAfterGeneration(f, res) ==
  LET original_get_prompts == f
      finally == original_get_prompts
  IN CASE res = "ok" -> finally
       [] res = "empty" -> finally
       [] OTHER -> finally

\* The result of generate_hairstyle: session, replies, the collaborator's
\* outcome and whether use_credit(chat_id, "virtual_hairstyle", 2) is called.
Gen(s, r, gen, charge) == [s |-> s, r |-> r, gen |-> gen, charge |-> charge]

\* A generation that charges before it looks at the collaborator's result.
GenerateHairstyleChargeFirst(s, res, lm) ==
  LET s1 == [s EXCEPT !.waiting_for_hairstyle_selection = FALSE,
                      !.customization_state = "selecting_style"]
  IN IF s.image_data = 0 THEN Gen(s1, {"hairstyle_generating", "error"}, "none", FALSE)
     ELSE Gen(s1, {"hairstyle_generating"}, res, TRUE)

\* A generation that leaves the selection open, so that the next text
\* generates again on the same credit check.
GenerateHairstyleKeepWaiting(s, res, lm) ==
  IF s.image_data = 0 THEN Gen(s, {"hairstyle_generating", "error"}, "none", FALSE)
  ELSE Gen(s, {"hairstyle_generating"}, res, res = "ok")

\* FaceShapeBot.generate_hairstyle.  `res` is what apply_hairstyle does
\* ("ok": image bytes, "empty": None or b"", "raised": an exception), `lm`
\* says whether the re-analysis finds landmarks when none are stored.  A
\* missing image_data raises KeyError before the collaborator is reached.
GenerateHairstyle(s, res, lm) ==
  LET s1 == [s EXCEPT !.waiting_for_hairstyle_selection = FALSE,
                      !.customization_state = "selecting_style"]
      s2 == IF s1.landmarks = 0 /\ lm
              THEN [s1 EXCEPT !.landmarks = s1.image_data] ELSE s1
  IN IF s.image_data = 0 THEN Gen(s1, {"hairstyle_generating", "error"}, "none", FALSE)
     ELSE IF res = "ok"
       THEN Gen(s2, {"hairstyle_generating", "hairstyle_applied"}, "ok", TRUE)
       ELSE Gen(s2, {"hairstyle_generating", "error"}, res, FALSE)

\* A selection that generates as soon as the hairstyle number is chosen,
\* without the colour and length text.
ApplySelectedHairstyleNoColour(s, t, n, res, lm) ==
  LET state == IF s.customization_state = "absent" THEN "selecting_gender"
               ELSE s.customization_state
  IN CASE state = "selecting_gender" ->
            IF ~IsDigit(t) \/ IntOf(t) < 1 \/ IntOf(t) > 2
              THEN Gen(s, {"invalid_choice"}, "none", FALSE)
            ELSE IF n = 0 THEN Gen(s, {"no_hairstyles"}, "none", FALSE)
            ELSE Gen([s EXCEPT !.customization_state = "selecting_style"],
                     {"choose_style"}, "none", FALSE)
       [] state = "selecting_style" ->
            IF ~IsDigit(t) \/ IntOf(t) < 1 \/ IntOf(t) > NumHairstyles
              THEN Gen(s, {"invalid_choice"}, "none", FALSE)
              ELSE GenerateHairstyle(s, res, lm)
       [] OTHER -> GenerateHairstyle(s, res, lm)

\* A selection whose style step goes on to the length question, as the
\* steps for length and texture expect.
ApplySelectedHairstyleLengths(s, t, n, res, lm) ==
  LET state == IF s.customization_state = "absent" THEN "selecting_gender"
               ELSE s.customization_state
  IN CASE state = "selecting_gender" ->
            IF ~IsDigit(t) \/ IntOf(t) < 1 \/ IntOf(t) > 2
              THEN Gen(s, {"invalid_choice"}, "none", FALSE)
            ELSE IF n = 0 THEN Gen(s, {"no_hairstyles"}, "none", FALSE)
            ELSE Gen([s EXCEPT !.customization_state = "selecting_style"],
                     {"choose_style"}, "none", FALSE)
       [] state = "selecting_style" ->
            IF ~IsDigit(t) \/ IntOf(t) < 1 \/ IntOf(t) > NumHairstyles
              THEN Gen(s, {"invalid_choice"}, "none", FALSE)
              ELSE Gen([s EXCEPT !.customization_state = "selecting_length"],
                       {"length_options"}, "none", FALSE)
       [] state = "selecting_length" ->
            IF ~IsDigit(t) \/ IntOf(t) < 1 \/ IntOf(t) > 2
              THEN Gen(s, {"invalid_length"}, "none", FALSE)
              ELSE Gen([s EXCEPT !.customization_state = "selecting_texture"],
                       {"texture_options"}, "none", FALSE)
       [] state = "selecting_texture" ->
            IF ~IsDigit(t) \/ IntOf(t) < 1 \/ IntOf(t) > 2
              THEN Gen(s, {"invalid_texture"}, "none", FALSE)
              ELSE GenerateHairstyle(s, res, lm)
       [] OTHER -> GenerateHairstyle(s, res, lm)

\* FaceShapeBot.apply_selected_hairstyle.  `n` is the number of hairstyles
\* get_available_hairstyles returns at the gender step (0 or
\* NumHairstyles); the style step reads the list stored by that step.  The
\* steps for length and texture are those of the code, for a hairstyle
\* that lists two lengths and two textures; the last branch is the step
\* input_color_length.
ApplySelectedHairstyle(s, t, n, res, lm) ==
  LET state == IF s.customization_state = "absent" THEN "selecting_gender"
               ELSE s.customization_state
  IN CASE state = "selecting_gender" ->
            IF ~IsDigit(t) \/ IntOf(t) < 1 \/ IntOf(t) > 2
              THEN Gen(s, {"invalid_choice"}, "none", FALSE)
            ELSE IF n = 0 THEN Gen(s, {"no_hairstyles"}, "none", FALSE)
            ELSE Gen([s EXCEPT !.customization_state = "selecting_style"],
                     {"choose_style"}, "none", FALSE)
       [] state = "selecting_style" ->
            IF ~IsDigit(t) \/ IntOf(t) < 1 \/ IntOf(t) > NumHairstyles
              THEN Gen(s, {"invalid_choice"}, "none", FALSE)
              ELSE Gen([s EXCEPT !.customization_state = "input_color_length"],
                       {"enter_color_length"}, "none", FALSE)
       [] state = "selecting_length" ->
            IF ~IsDigit(t) \/ IntOf(t) < 1 \/ IntOf(t) > 2
              THEN Gen(s, {"invalid_length"}, "none", FALSE)
              ELSE Gen([s EXCEPT !.customization_state = "selecting_texture"],
                       {"texture_options"}, "none", FALSE)
       [] state = "selecting_texture" ->
            IF ~IsDigit(t) \/ IntOf(t) < 1 \/ IntOf(t) > 2
              THEN Gen(s, {"invalid_texture"}, "none", FALSE)
              ELSE GenerateHairstyle(s, res, lm)
       [] OTHER -> GenerateHairstyle(s, res, lm)

\* ---------------------------------------------------- purchase dialogue
\* FaceShapeBot.buy_credits_command: current_feature = None, then either
\* the package question (Stripe inactive) or the payment-method question;
\* no call of _reset_all_waiting_states.
BuyCredits(s, stripe_active) ==
  IF ~stripe_active
    THEN Out([s EXCEPT !.current_feature = "None",
                       !.selected_payment_method = "crypto",
                       !.waiting_for_package_selection = TRUE],
             {"buy_credits_crypto"})
    ELSE Out([s EXCEPT !.current_feature = "None",
                       !.waiting_for_payment_method = TRUE],
             {"choose_payment_method"})

\* FaceShapeBot.handle_payment_method_selection
HandlePaymentMethodSelection(s, t, stripe_active) ==
  IF t = "1" \/ (stripe_active /\ t = "2")
    THEN Out([s EXCEPT !.waiting_for_payment_method = FALSE,
                       !.selected_payment_method =
                          IF t = "1" THEN "crypto" ELSE "card",
                       !.waiting_for_package_selection = TRUE],
             {"choose_package"})
    ELSE Out(s, {"invalid_payment_method"})

\* Credits of the package at position k of the provider's package list
\* (the lists are configuration of the payment modules; every package
\* differs from the fallback of 5 credits used by the reconciliation code).
PackageCredits(k) == 3 * k

\* FaceShapeBot.handle_package_selection, up to the call of
\* _create_payment: `pay` tells whether _create_payment is called.
HandlePackageSelection(s, t) ==
  IF IsDigit(t) /\ IntOf(t) >= 1 /\ IntOf(t) <= NumPackages
    THEN IF s.selected_payment_method # "none"
           THEN [s |-> [s EXCEPT !.selected_package = IntOf(t),
                                 !.waiting_for_package_selection = FALSE],
                 r |-> {}, pay |-> TRUE]
           ELSE [s |-> [s EXCEPT !.selected_package = IntOf(t),
                                 !.waiting_for_package_selection = FALSE,
                                 !.waiting_for_payment_method = TRUE],
                 r |-> {"choose_payment_method"}, pay |-> FALSE]
    ELSE [s |-> s, r |-> {"invalid_package"}, pay |-> FALSE]

\* ------------------------------------------------------- image editing
IsColorName(t) == t \in ColorNames

\* FaceShapeBot.change_background_command for a text message.  `avail` is
\* lightx_available after the re-initialisation attempt, `api` the outcome
\* of lightx_client.change_background.  The branch guarded by
\* waiting_for_background_prompt is never taken: a colour name with a
\* stored image is served by the first block, a colour name without an
\* image returns at the image check, any other text has just been reset.
ChangeBackground(s, t, avail, api) ==
  IF IsColorName(t) /\ s.image_data # 0
    THEN IF api = "ok" THEN Out(ResetAllWaitingStates(s), {"background_result"})
                       ELSE Out(s, {"background_failed"})
  ELSE IF ~avail THEN Out(s, {"background_unavailable"})
  ELSE LET s1 == [s EXCEPT !.current_feature = "5"]
           s2 == IF IsColorName(t) THEN s1 ELSE ResetAllWaitingStates(s1)
       IN IF s2.image_data = 0 THEN Out(s2, {"background_need_photo"})
          ELSE Out([s2 EXCEPT !.waiting_for_background_prompt = TRUE],
                   {"choose_background"})

\* FaceShapeBot.generate_from_text_command
GenerateFromText(s, t, avail, api) ==
  IF s.waiting_for_text_prompt /\ ~StartsWithSlash(t) /\ ~IsDigit(t)
    THEN Out([s EXCEPT !.waiting_for_text_prompt = FALSE],
             IF api = "ok" THEN {"generated_image"} ELSE {"generation_failed"})
    ELSE LET s1 == ResetAllWaitingStates([s EXCEPT !.current_feature = "7"])
         IN IF ~avail THEN Out(s1, {"generation_unavailable"})
            ELSE Out([s1 EXCEPT !.waiting_for_text_prompt = TRUE],
                     {"enter_text_prompt"})

\* FaceShapeBot.process_photo_for_ai_replace called from handle_text with
\* the text as prompt (a stored image is guaranteed by the caller).
\* `photo_attr` is hasattr(message, 'photo'): with it the message is
\* neither "text" nor "photo" for this function and it only replies.
AiReplaceText(s, photo_attr, api) ==
  IF photo_attr THEN Out(s, {"send_photo_or_text"})
  ELSE Out([s EXCEPT !.waiting_for_replace_prompt = FALSE],
           IF api = "ok" THEN {"replace_result"} ELSE {"replace_failed"})

\* FaceShapeBot.process_photo_for_ai_replace called from process_photo
\* (current_feature = "6"): the photo is stored, a saved replace_prompt is
\* used when there is one, otherwise the prompt is asked for.
AiReplacePhoto(s, img, api) ==
  LET s1 == [s EXCEPT !.image_data = img]
  IN IF s1.replace_prompt
       THEN Out([s1 EXCEPT !.waiting_for_replace_prompt = FALSE],
                IF api = "ok" THEN {"replace_result"} ELSE {"replace_failed"})
       ELSE Out([s1 EXCEPT !.waiting_for_replace_prompt = TRUE],
                {"enter_replace_prompt"})

\* FaceShapeBot.process_photo_for_background_removal
BackgroundRemovalPhoto(s, img) ==
  Out([s EXCEPT !.image_data = img], {"choose_background"})

\* FaceShapeBot.process_photo: the intake step a photo is given to
PhotoRoute(s) ==
  IF s.current_feature \in {"2", "3", "4", "5", "6"} THEN s.current_feature
  ELSE "default"

\* FaceShapeBot.process_photo.  `img` is the photo, `res` the analyser's
\* outcome: "ok", "no_face", "no_landmarks" (a shape but no landmarks;
\* only the default branch distinguishes it) or "raised" (the download
\* fails before anything is stored).
ProcessPhoto(s, img, res, api) ==
  LET s1 == [s EXCEPT !.image_data = img]
  IN IF res = "raised" THEN Out(s, {"error"})
     ELSE CASE PhotoRoute(s) = "3" ->
                 IF res = "no_face" THEN Out(s1, {"no_face"})
                 ELSE Out(ResetAllWaitingStates(s1), {"symmetry_result"})
            [] PhotoRoute(s) = "5" -> BackgroundRemovalPhoto(s, img)
            [] PhotoRoute(s) = "6" -> AiReplacePhoto(s, img, api)
            [] PhotoRoute(s) = "2" ->
                 IF res = "no_face" THEN Out(s1, {"no_face"})
                 ELSE Out([s1 EXCEPT !.face_shape = img,
                                     !.current_feature = "None"],
                          {"face_shape_result"})
            [] PhotoRoute(s) = "4" ->
                 Out(s1, IF res = "no_face" THEN {"no_face"}
                                            ELSE {"beauty_result"})
            [] OTHER ->
                 IF res = "no_face" THEN Out(s1, {"processing", "no_face"})
                 ELSE IF res = "no_landmarks"
                   THEN Out(s1, {"processing", "face_shape_result"})
                   ELSE Out([s1 EXCEPT !.face_shape = img, !.landmarks = img,
                                !.waiting_for_hairstyle_selection = FALSE],
                            {"processing", "face_shape_result"})

\* handle_callback_query, data "bg_white" / "bg_black" / "bg_green": the
\* colour is stored, waiting_for_background_prompt is cleared and the
\* stored image is edited (a missing image is caught as an error reply).
BackgroundColorCallback(s, api) ==
  Out([s EXCEPT !.waiting_for_background_prompt = FALSE],
      IF s.image_data = 0 THEN {"background_error"}
      ELSE IF api = "ok" THEN {"background_result"}
      ELSE {"background_failed"})

\* ------------------------------------------------- database (not in src/)
NoTx == [status |-> "none", owner |-> 0, credits |-> 0]
NoPayment == [status |-> "none", owner |-> 0, pkg |-> 0]

\* get_user_credits: the balance of the user row, 0 without a row
DbGetUserCredits(cr, c) == cr[c]

\* update_user_credits(telegram_id, n): writes the balance of an existing
\* user row
DbUpdateUserCredits(cr, us, c, n) ==
  IF c \in us THEN [cr EXCEPT ![c] = n] ELSE cr

\* A use_credit that subtracts without looking at the balance.
DbUseCreditUnchecked(cr, c, n) == [cr EXCEPT ![c] = @ - n]

\* use_credit(telegram_id, action, n): the charge of the ledger; it is
\* refused when the balance is below n
DbUseCredit(cr, c, n) ==
  IF cr[c] >= n THEN [cr EXCEPT ![c] = @ - n] ELSE cr

\* A create_transaction that records the fallback amount of the
\* reconciliation code whatever package was bought.
DbCreateTransactionFlat(tx, p, c, k) ==
  [tx EXCEPT ![p] = [status |-> "pending", owner |-> c, credits |-> 5]]

\* create_transaction(telegram_id, amount, credits, payment_id): a new
\* Transaction in status pending
DbCreateTransaction(tx, p, c, k) ==
  [tx EXCEPT ![p] = [status |-> "pending", owner |-> c, credits |-> k]]

\* complete_transaction(payment_id, 'completed') as the callers in
\* handle_successful_payment use it ("complete the transaction and add the
\* credits"): a pending Transaction becomes completed and its credits are
\* added to its owner's balance; it answers False, changing nothing, when
\* there is no such pending Transaction or the write fails (db_ok false).
DbCompleteOk(tx, p, db_ok) == db_ok /\ tx[p].status = "pending"

DbCompleteTx(tx, p, db_ok) ==
  IF DbCompleteOk(tx, p, db_ok) THEN [tx EXCEPT ![p].status = "completed"]
  ELSE tx

DbCompleteCredits(cr, tx, p, db_ok) ==
  IF DbCompleteOk(tx, p, db_ok)
    THEN [cr EXCEPT ![tx[p].owner] = @ + tx[p].credits]
    ELSE cr

\* ------------------------------------------------------ payment providers
\* stripe_payment.check_payment_status(id): Stripe's word for a paid
\* session is "completed"; an id Stripe does not know gives None; `glitch`
\* is a failed request.
StripeStatus(pv, p, glitch) ==
  IF glitch \/ p \notin StripeIds \/ pv[p].status = "none" THEN "None"
  ELSE IF pv[p].status = "paid" THEN "completed"
  ELSE pv[p].status

\* stripe_payment.get_payment_data(id): the credits and telegram_id
\* recorded with the session, None when Stripe has no such session or the
\* request fails.
StripeHasData(pv, p, glitch) ==
  ~glitch /\ p \in StripeIds /\ pv[p].status # "none"

\* payment_module.check_payment_status(id) of the Crypto Bot provider
CryptoStatus(pv, p, glitch) ==
  IF glitch THEN "error"
  ELSE IF p \notin CryptoIds \/ pv[p].status = "none" THEN "None"
  ELSE pv[p].status

\* --------------------------------------------------- payment handlers
\* The state of the ledger after a reconciliation step and its replies.
Rec(cr, tx, r) == [cr |-> cr, tx |-> tx, r |-> r]

\* FaceShapeBot.handle_stripe_payment.  No provider status is asked for:
\* unless the Transaction is already completed, it is written (or created)
\* as completed and `credits` (the payment data's, else 5) are added to
\* the calling chat's balance.  `glitch`: get_payment_data gives None,
\* `db_ok`: the commit succeeds.
HandleStripePayment(cr, tx, us, pv, c, p, glitch, db_ok) ==
  LET k == IF StripeHasData(pv, p, glitch) THEN PackageCredits(pv[p].pkg)
           ELSE DefaultCredits
      granted == DbUpdateUserCredits(cr, us, c, DbGetUserCredits(cr, c) + k)
  IN IF tx[p].status = "completed" THEN Rec(cr, tx, {"already_processed"})
     ELSE IF ~db_ok THEN Rec(cr, tx, {"contact_support"})
     ELSE IF tx[p].status # "none"
       THEN Rec(granted, [tx EXCEPT ![p].status = "completed"],
                {"payment_success"})
     ELSE IF c \notin us THEN Rec(cr, tx, {})
     ELSE Rec(granted,
              [tx EXCEPT ![p] = [status |-> "completed", owner |-> c,
                                 credits |-> k]],
              {"payment_success"})

\* FaceShapeBot.start, the branch of a `success_<id>` / `success-<id>`
\* parameter whose id is not a payment link: `status` is what
\* stripe_payment.check_payment_status returned.
StartSuccess(cr, tx, us, pv, c, p, status, glitch, db_ok) ==
  IF status = "completed"
    THEN IF StripeHasData(pv, p, glitch) /\ pv[p].owner = c
           THEN LET k == PackageCredits(pv[p].pkg)
                    cr1 == DbUpdateUserCredits(cr, us, c,
                                               DbGetUserCredits(cr, c) + k)
                IN Rec(DbCompleteCredits(cr1, tx, p, db_ok),
                       DbCompleteTx(tx, p, db_ok), {"payment_success"})
           ELSE LET k == IF StripeHasData(pv, p, glitch)
                           THEN PackageCredits(pv[p].pkg) ELSE DefaultCredits
                IN Rec(DbUpdateUserCredits(cr, us, c,
                                           DbGetUserCredits(cr, c) + k),
                       tx, {"payment_success"})
  ELSE IF status = "pending" THEN Rec(cr, tx, {"payment_processing"})
  ELSE Rec(DbUpdateUserCredits(cr, us, c,
                               DbGetUserCredits(cr, c) + DefaultCredits),
           tx, {"payment_success"})

StartKinds == {"plain", "success_payment", "success", "cancel", "fail"}

\* The ghost record of a reconciliation step
DidPay(op, c, replies, checked, p) ==
  [Did(op, c, replies) EXCEPT !.checked = checked, !.pid = p]

InBounds(cr) == \A c \in AllChats : cr[c] <= MaxBalance

\* What the environment does during one reconciliation step: whether the
\* status request, the payment-data request and the database write succeed.
PayEnv == [status_ok : BOOLEAN, data_ok : BOOLEAN, db_ok : BOOLEAN]
Smooth == [status_ok |-> TRUE, data_ok |-> TRUE, db_ok |-> TRUE]

\* FaceShapeBot.start: the reset comes first; a payment parameter returns
\* before get_or_create_user; `fail_<id>` and no parameter reach it.
\* The second parameter block's call of handle_successful_payment is
\* shadowed by the first block, which returns for every `success_` id.
Start(c, kind, p, e) ==
  LET byLink == kind = "success_payment" \/ (kind = "success" /\ p \in LinkIds)
      status == StripeStatus(provider, p, ~e.status_ok)
      rec == IF byLink
               THEN HandleStripePayment(credits, transactions, users,
                                        provider, c, p, ~e.data_ok, e.db_ok)
             ELSE IF kind = "success"
               THEN StartSuccess(credits, transactions, users, provider,
                                 c, p, status, ~e.data_ok, e.db_ok)
             ELSE Rec(credits, transactions,
                      IF kind = "cancel" THEN {"payment_cancelled"}
                      ELSE IF kind = "fail" THEN {"payment_failed"}
                      ELSE {"start"})
  IN /\ kind \in {"plain", "cancel", "fail"} => (p = "pl_1" /\ e = Smooth)
     /\ InBounds(rec.cr)
     /\ user_data' = [user_data EXCEPT ![c] = ResetAllWaitingStates(Sess(c))]
     /\ credits' = rec.cr
     /\ transactions' = rec.tx
     /\ users' = IF kind \in {"plain", "fail"} THEN users \cup {c} ELSE users
     /\ last' = [DidPay("start:" \o kind, c, rec.r,
                        IF kind = "success" /\ ~byLink THEN status
                        ELSE "unchecked",
                        IF kind \in {"success_payment", "success"} THEN p
                        ELSE "none")
                   EXCEPT !.was = <<Sess(c).current_feature, WaitsOf(Sess(c))>>]
     /\ UNCHANGED provider
     /\ UNCHANGED <<running, get_prompts>>

\* FaceShapeBot.handle_successful_payment (the reconciliation entry point
\* for a payment id): the provider is chosen by the id's prefix, the status
\* is checked, and only a success status reaches the Transaction.
SuccessStatus(p) == IF p \in StripeIds THEN "completed" ELSE "paid"

CheckedStatus(pv, p, e) ==
  IF p \in StripeIds
    THEN IF StripeStatus(pv, p, ~e.status_ok) = "None" THEN "error"
         ELSE StripeStatus(pv, p, ~e.status_ok)
    ELSE CryptoStatus(pv, p, ~e.status_ok)

HasPaymentData(pv, p, e) == e.data_ok /\ pv[p].status # "none"

HandleSuccessfulPaymentRec(cr, tx, pv, c, p, e) ==
  LET status == CheckedStatus(pv, p, e)
      created == DbCreateTransaction(tx, p, c, PackageCredits(pv[p].pkg))
  IN IF status = "error" THEN Rec(cr, tx, {"payment_error"})
     ELSE IF status # SuccessStatus(p)
       THEN Rec(cr, tx, IF status = "expired" THEN {"payment_expired"}
                        ELSE IF status = "canceled" THEN {"payment_canceled"}
                        ELSE {"payment_not_completed"})
     ELSE IF tx[p].status = "completed"
       THEN Rec(cr, tx, {"payment_already_processed"})
     ELSE IF tx[p].status = "pending"
       THEN Rec(DbCompleteCredits(cr, tx, p, e.db_ok),
                DbCompleteTx(tx, p, e.db_ok),
                IF DbCompleteOk(tx, p, e.db_ok) THEN {"payment_success"}
                ELSE {"credit_error"})
     ELSE IF tx[p].status # "none" THEN Rec(cr, tx, {"contact_support"})
     ELSE IF ~HasPaymentData(pv, p, e) THEN Rec(cr, tx, {"contact_support"})
     ELSE Rec(DbCompleteCredits(cr, created, p, e.db_ok),
              DbCompleteTx(created, p, e.db_ok),
              IF e.db_ok THEN {"payment_success"} ELSE {"credit_error"})

HandleSuccessfulPayment(c, p, e) ==
  LET rec == HandleSuccessfulPaymentRec(credits, transactions, provider,
                                        c, p, e)
  IN /\ InBounds(rec.cr)
     /\ credits' = rec.cr
     /\ transactions' = rec.tx
     /\ last' = DidPay("handle_successful_payment", c, rec.r,
                       CheckedStatus(provider, p, e), p)
     /\ UNCHANGED <<user_data, users, provider>>
     /\ UNCHANGED <<running, get_prompts>>

\* The payer settles, abandons or lets lapse a pending payment at the
\* provider (outside the bot).
ProviderSettle(p, st) ==
  /\ provider[p].status = "pending"
  /\ provider' = [provider EXCEPT ![p].status = st]
  /\ last' = Did("provider", 0, {})
  /\ UNCHANGED <<user_data, credits, users, transactions>>
  /\ UNCHANGED <<running, get_prompts>>

\* ------------------------------------------------ commands with a ledger
\* A /try that takes the cost at the moment it opens the selection.
TryHairstyleCommandCharging(c, via) ==
  LET o == TryHairstyle(Sess(c), DbGetUserCredits(credits, c))
  IN /\ user_data' = [user_data EXCEPT ![c] = o.s]
     /\ last' = Did(via, c, o.r)
     /\ credits' = IF "choose_gender" \in o.r
                      THEN DbUseCredit(credits, c, Cost) ELSE credits
     /\ UNCHANGED <<users, transactions, provider, running, get_prompts>>

\* /try and the inline button "try_hairstyle" both call
\* try_hairstyle_command.
TryHairstyleCommand(c, via) ==
  LET o == TryHairstyle(Sess(c), DbGetUserCredits(credits, c))
  IN /\ user_data' = [user_data EXCEPT ![c] = o.s]
     /\ last' = Did(via, c, o.r)
     /\ UNCHANGED Ledger
     /\ UNCHANGED <<running, get_prompts>>

\* /buy: get_or_create_user, then buy_credits_command's dialogue
BuyCreditsCommand(c, stripe_active) ==
  LET o == BuyCredits(Sess(c), stripe_active)
  IN /\ user_data' = [user_data EXCEPT ![c] = o.s]
     /\ users' = users \cup {c}
     /\ last' = Did("buy", c, o.r)
     /\ UNCHANGED <<credits, transactions, provider>>
     /\ UNCHANGED <<running, get_prompts>>

\* ------------------------------------------------------------ routing
\* handle_text: the order in which the registered text handler tests the
\* message and the session.
TextRoute(s, t) ==
  IF StartsWithSlash(t) THEN "ignored"
  ELSE IF s.waiting_for_payment_method THEN "payment_method"
  ELSE IF t = "5" THEN "digit5"
  ELSE IF t = "6" THEN "digit6"
  ELSE IF t = "7" THEN "digit7"
  ELSE IF s.current_feature = "5" /\ s.image_data # 0 THEN "background_text"
  ELSE IF s.current_feature = "6" /\ s.image_data # 0 THEN "replace_text"
  ELSE IF s.waiting_for_package_selection THEN "package"
  ELSE IF s.waiting_for_hairstyle_selection THEN "hairstyle"
  ELSE IF s.waiting_for_text_prompt THEN "text_prompt"
  ELSE IF s.waiting_for_background_prompt THEN "background_prompt"
  ELSE "fallback"

\* The payment id the provider of the chosen method hands out
NewPaymentId(method) == IF method = "crypto" THEN "inv_1" ELSE "cs_1"

\* FaceShapeBot._create_payment: the provider creates a payment for the
\* selected package (`b`: it answers with payment info, which also needs
\* an id that is still free), and only then create_transaction is called.
CreatePaymentOk(s, pv, b) ==
  /\ b
  /\ s.selected_package # 0
  /\ pv[NewPaymentId(s.selected_payment_method)].status = "none"

\* The session part of handle_text on each route.  `b` is the answer of
\* the one yes/no query the route makes of its environment
\* (stripe_integration_active, lightx_available, hasattr(message, 'photo'),
\* a non-empty hairstyle list, landmarks found on re-analysis), `api` the
\* outcome of the generative collaborator the route calls.
TextSession(s, t, b, api) ==
  LET route == TextRoute(s, t)
  IN CASE route = "ignored" -> Gen(s, {}, "none", FALSE)
       [] route = "payment_method" ->
            LET o == HandlePaymentMethodSelection(s, t, b)
            IN Gen(o.s, o.r, "none", FALSE)
       [] route = "digit5" ->
            Gen([s EXCEPT !.current_feature = "5"], {"background_info"},
                "none", FALSE)
       [] route = "digit6" ->
            Gen([s EXCEPT !.current_feature = "6"], {"replace_info"},
                "none", FALSE)
       [] route = "digit7" ->
            LET o == GenerateFromText(s, t, b, api)
            IN Gen(o.s, o.r, "none", FALSE)
       [] route = "background_text" ->
            LET o == ChangeBackground(
                       [s EXCEPT !.waiting_for_background_prompt = TRUE],
                       t, b, api)
            IN Gen(o.s, o.r, "none", FALSE)
       [] route = "replace_text" ->
            LET o == AiReplaceText([s EXCEPT !.replace_prompt = TRUE], b, api)
            IN Gen(o.s, o.r, "none", FALSE)
       [] route = "package" ->
            LET o == HandlePackageSelection(s, t)
            IN Gen(o.s, o.r, "none", FALSE)
       [] route = "hairstyle" ->
            ApplySelectedHairstyle(s, t, IF b THEN NumHairstyles ELSE 0,
                                   api, b)
       [] route = "text_prompt" ->
            LET o == GenerateFromText(s, t, b, api)
            IN Gen(o.s, o.r, "none", FALSE)
       [] route = "background_prompt" ->
            LET o == ChangeBackground(s, t, b, api)
            IN Gen(o.s, o.r, "none", FALSE)
       [] OTHER -> Gen(s, {"fallback_help"}, "none", FALSE)

\* handle_text as a whole: the session, the charge of a successful
\* hairstyle generation, and the payment a package choice creates.
HandleText(c, t, b, api) ==
  LET s == Sess(c)
      route == TextRoute(s, t)
      g == TextSession(s, t, b, api)
      pays == route = "package" /\ HandlePackageSelection(s, t).pay
      made == pays /\ CreatePaymentOk(g.s, provider, b)
      pid == NewPaymentId(g.s.selected_payment_method)
  IN /\ user_data' = [user_data EXCEPT ![c] = g.s]
     /\ credits' = IF g.charge THEN DbUseCredit(credits, c, Cost) ELSE credits
     /\ transactions' =
          IF made THEN DbCreateTransaction(transactions, pid, c,
                                           PackageCredits(g.s.selected_package))
          ELSE transactions
     /\ provider' =
          IF made THEN [provider EXCEPT ![pid] =
                          [status |-> "pending", owner |-> c,
                           pkg |-> g.s.selected_package]]
          ELSE provider
     /\ last' = [Did("text:" \o route, c,
                     IF made THEN {"payment_created"}
                     ELSE IF pays THEN {"payment_error"} ELSE g.r)
                   EXCEPT !.gen = g.gen, !.charge = g.charge]
     /\ get_prompts' = IF g.gen # "none"
                         THEN GetPromptsAfterGeneration(get_prompts, g.gen)
                         ELSE get_prompts
     /\ UNCHANGED users
     /\ UNCHANGED running

\* handle_photo -> process_photo
HandlePhoto(c, img, res, api) ==
  LET o == ProcessPhoto(Sess(c), img, res, api)
  IN /\ user_data' = [user_data EXCEPT ![c] = o.s]
     /\ last' = Did("photo:" \o PhotoRoute(Sess(c)), c, o.r)
     /\ UNCHANGED Ledger
     /\ UNCHANGED <<running, get_prompts>>

\* handle_video: a video longer than 8 seconds is refused, any other is
\* analysed by process_video; neither touches a modelled session field.
HandleVideo(c, long) ==
  /\ last' = Did("video", c, IF long THEN {"video_too_long"}
                                     ELSE {"video_result"})
  /\ UNCHANGED <<user_data, Ledger>>
  /\ UNCHANGED <<running, get_prompts>>

\* handle_callback_query, data "bg_*"
HandleBackgroundCallback(c, api) ==
  LET o == BackgroundColorCallback(Sess(c), api)
  IN /\ user_data' = [user_data EXCEPT ![c] = o.s]
     /\ last' = Did("callback:bg", c, o.r)
     /\ UNCHANGED Ledger
     /\ UNCHANGED <<running, get_prompts>>

\* ------------------------------------------------------- specification
\* Balances a chat can have in the database when the bot starts.
InitBalances == {0, 1, 4}

\* After construction user_data is empty; the database holds no
\* Transaction and, for each chat, either no user row or a row with one
\* of the balances `bals`.
InitWith(bals) ==
  /\ user_data = [c \in AllChats |-> EmptySession]
  /\ \E bal \in bals :
       /\ credits = [c \in AllChats |-> bal]
       /\ users = IF bal > 0 THEN AllChats ELSE {}
  /\ transactions = [p \in PaymentIds |-> NoTx]
  /\ provider = [p \in PaymentIds |-> NoPayment]
  /\ last = Did("init", 0, {})
  /\ running = [w \in Workers |-> Idle]
  /\ get_prompts = "original"

Init == InitWith(InitBalances)

InitEmpty == InitWith({0})

ApiOutcomes == {"ok", "empty", "raised"}
PhotoOutcomes == {"ok", "no_face", "no_landmarks", "raised"}

\* The chat whose updates are followed
Chats == {1}

\* Sessions and routing, with Stripe configured: the commands that write
\* the session, the menu digits and the prompts of the free flows, photos
\* with a detected face, the colour buttons.
RoutingTexts == {"1", "5", "7", "abc", "white"}

Next ==
  \E c \in Chats :
    \/ MenuCommand(c)
    \/ ResetCommand(c)
    \/ FaceshapeCommand(c)
    \/ SymmetryCommand(c)
    \/ BeautyCommand(c)
    \/ VideoCommand(c)
    \/ TryHairstyleCommand(c, "try")
    \/ BuyCreditsCommand(c, TRUE)
    \/ \E kind \in {"plain", "cancel", "fail"} : Start(c, kind, "pl_1", Smooth)
    \/ \E t \in RoutingTexts, b \in BOOLEAN : HandleText(c, t, b, "ok")
    \/ HandlePhoto(c, 1, "ok", "ok")
    \/ HandleBackgroundCallback(c, "ok")

Spec == Init /\ [][Next]_vars

\* Hairstyle try-on and its metering: /try and the inline button, the
\* selection texts, photos with every analyser outcome, the collaborator's
\* three outcomes, the commands that drop the stored image, the read-only
\* commands, videos, and deep links that add credits.
TryOnTexts == {"1", "2", "9", "abc"}

NextTryOn ==
  \E c \in Chats :
    \/ \E via \in {"try", "callback:try_hairstyle"} : TryHairstyleCommand(c, via)
    \/ BeautyCommand(c)
    \/ ResetCommand(c)
    \/ HelpCommand(c)
    \/ CreditsCommand(c)
    \/ HairstylesCommand(c)
    \/ \E long \in BOOLEAN : HandleVideo(c, long)
    \/ \E t \in TryOnTexts, b \in BOOLEAN, api \in ApiOutcomes :
         HandleText(c, t, b, api)
    \/ \E res \in PhotoOutcomes : HandlePhoto(c, 1, res, "ok")
    \/ \E p \in StripeIds \cup LinkIds : Start(c, "success", p, Smooth)

SpecTryOn == Init /\ [][NextTryOn]_vars

\* Purchases and the deep links: /buy, the two selection texts, every
\* /start parameter for every payment id, and the provider's outcomes of
\* a card payment.  The database starts without balances.
PurchaseTexts == {"1", "2"}

NextPay ==
  \E c \in Chats :
    \/ \E b \in BOOLEAN : BuyCreditsCommand(c, b)
    \/ \E t \in PurchaseTexts, b \in BOOLEAN : HandleText(c, t, b, "ok")
    \/ \E kind \in StartKinds, p \in PaymentIds, e \in PayEnv : Start(c, kind, p, e)
    \/ \E p \in StripeIds, st \in {"paid", "canceled", "expired"} :
         ProviderSettle(p, st)

SpecPay == InitEmpty /\ [][NextPay]_vars

\* Purchases and the reconciliation entry point handle_successful_payment,
\* with the outcomes of both providers.
NextReconcile ==
  \E c \in Chats :
    \/ \E b \in BOOLEAN : BuyCreditsCommand(c, b)
    \/ \E t \in PurchaseTexts, b \in BOOLEAN : HandleText(c, t, b, "ok")
    \/ \E p \in PaymentIds, e \in PayEnv : HandleSuccessfulPayment(c, p, e)
    \/ \E p \in PaymentIds, st \in {"paid", "canceled", "expired"} :
         ProviderSettle(p, st)

SpecReconcile == InitEmpty /\ [][NextReconcile]_vars

\* Success links presented by either chat while every provider request and
\* database write succeeds and Stripe is configured: chat 1 buys with
\* either method, the payer pays at either provider, and both chats open
\* /start with and without a success link.
NextLink ==
  \/ BuyCreditsCommand(1, TRUE)
  \/ \E t \in PurchaseTexts : HandleText(1, t, TRUE, "ok")
  \/ \E c \in AllChats : Start(c, "plain", "pl_1", Smooth)
  \/ \E c \in AllChats, p \in StripeIds \cup CryptoIds :
       Start(c, "success", p, Smooth)
  \/ \E p \in StripeIds \cup CryptoIds : ProviderSettle(p, "paid")

SpecLink == InitEmpty /\ [][NextLink]_vars

\* ------------------------------------------------------------ properties
ReconcileOps ==
  {"start:success", "start:success_payment", "handle_successful_payment"}

StartOps == {"start:" \o k : k \in StartKinds}

\* C1: a reconciliation step for a paid payment whose Transaction is
\* already completed leaves every balance as it was (processing the paid
\* outcome again grants nothing).
ReplayGrantsNothing ==
  [][ (last'.op \in ReconcileOps
         /\ provider[last'.pid].status = "paid"
         /\ transactions[last'.pid].status = "completed")
        => credits' = credits ]_vars

\* C2: a balance grows only in a step whose provider status check, made in
\* that step, returned the provider's success status.
GrantNeedsConfirmedStatus ==
  [][ (\E c \in AllChats : credits'[c] > credits[c])
        => last'.checked \in {"paid", "completed"} ]_vars

\* C3: use_credit is only called when the balance is at least the cost, it
\* takes exactly the cost, and no balance is ever negative.
ChargeOnlyWhenAffordable ==
  [][ /\ last'.charge =>
           /\ credits[last'.chat] >= Cost
           /\ credits'[last'.chat] = credits[last'.chat] - Cost
      /\ \A c \in AllChats : credits'[c] >= 0 ]_vars

\* C3 witness: a generation has been charged and used up the balance.
ChargedDownToZero == last.charge /\ credits[last.chat] = 0

\* C4: when the hairstyle collaborator returns no image or raises, the
\* step does not call use_credit and every balance is as before.
FailedGenerationIsFree ==
  [][ last'.gen \in {"empty", "raised"}
        => (~last'.charge /\ credits' = credits) ]_vars

\* C4 witness: the collaborator returned nothing for a chat that could
\* have paid.
FailedWithCredits ==
  /\ last.gen \in {"empty", "raised"}
  /\ last.chat \in AllChats
  /\ credits[last.chat] >= Cost

\* C5: the collaborator is invoked only with a balance of at least the
\* cost and an open selection, the selection is closed by that step (the
\* next generation needs a new /try), and a successful generation takes
\* exactly the cost.
MeteredOncePerCheck ==
  [][ last'.gen # "none" =>
        /\ credits[last'.chat] >= Cost
        /\ user_data[last'.chat].waiting_for_hairstyle_selection
        /\ ~user_data'[last'.chat].waiting_for_hairstyle_selection
        /\ (last'.gen = "ok"
              => credits'[last'.chat] = credits[last'.chat] - Cost)
        /\ (last'.gen # "ok" => credits' = credits) ]_vars

\* C5 witness: a successful generation has taken the cost from a balance
\* that could pay for two.
GeneratedAndCharged ==
  /\ last.gen = "ok"
  /\ last.chat \in AllChats
  /\ credits[last.chat] = Cost
  /\ ~user_data[last.chat].waiting_for_hairstyle_selection

\* C6: in every session at most one of the eight wait flags is true.
AtMostOneWaitFlag ==
  \A c \in AllChats : Cardinality(WaitsOf(user_data[c])) <= 1

\* C7: right after a feature-entry command, /start or /menu the only wait
\* flag that can be set is the one of the feature just entered, and the
\* customization state is reset (None, or the first step of /try).
EntryOps ==
  {"faceshape", "try", "symmetry", "beauty", "analyze_video", "buy", "menu"}
    \cup StartOps

OwnWaits(op) ==
  CASE op = "try" -> {"waiting_for_hairstyle_selection"}
    [] op = "buy" -> {"waiting_for_payment_method",
                      "waiting_for_package_selection"}
    [] OTHER -> {}

EntryLeavesOnlyOwnWait ==
  last.op \in EntryOps =>
    /\ WaitsOf(user_data[last.chat]) \subseteq OwnWaits(last.op)
    /\ \/ user_data[last.chat].customization_state = "absent"
       \/ /\ last.op = "try"
          /\ user_data[last.chat].customization_state = "selecting_gender"

\* C8: after _reset_all_waiting_states (which is all /menu does to the
\* session) no wait reason is set, the analysis-method choice included,
\* the active feature is None and the customization state is None.
ResetClearsEverything ==
  last.op = "menu" =>
    /\ WaitsOf(user_data[last.chat]) = {}
    /\ ~user_data[last.chat].awaiting_analysis_method
    /\ user_data[last.chat].current_feature = "None"
    /\ user_data[last.chat].customization_state = "absent"

\* C9: after /start all wait flags are false and current_feature is None,
\* and a photo that comes next is given to the default intake, not to the
\* intake of a feature.
StartEndsTheFlow ==
  [][ /\ last'.op \in StartOps =>
           /\ WaitsOf(user_data'[last'.chat]) = {}
           /\ user_data'[last'.chat].current_feature = "None"
           /\ PhotoRoute(user_data'[last'.chat]) = "default"
      /\ ~ /\ last.op \in StartOps
            /\ last'.chat = last.chat
            /\ last'.op \in {"photo:" \o f : f \in {"2", "3", "4", "5", "6"}}
    ]_vars

\* C9 witness: /start arrived while the background prompt was awaited in
\* feature 5.
StartedMidFlow ==
  /\ last.op = "start:plain"
  /\ last.was[1] = "5"
  /\ "waiting_for_background_prompt" \in last.was[2]

\* C10: a reconciliation step whose status check returned canceled or
\* expired moves a pending Transaction to that status, changes no balance
\* and replies to the user.
CanceledOrExpiredIsTerminal ==
  [][ (last'.op \in ReconcileOps /\ last'.checked \in {"canceled", "expired"})
        => /\ credits' = credits
           /\ last'.replies # {}
           /\ (transactions[last'.pid].status = "pending"
                 => transactions'[last'.pid].status = last'.checked) ]_vars

\* C11: a reconciliation step whose status check failed (no answer, or the
\* status "error") reports an error, changes no balance and leaves every
\* Transaction as it was.
StatusErrorGrantsNothing ==
  [][ (last'.op \in ReconcileOps /\ last'.checked \in {"None", "error"})
        => /\ credits' = credits
           /\ transactions' = transactions
           /\ last'.replies \subseteq {"payment_error"}
           /\ last'.replies # {} ]_vars

\* C12: a reconciliation step that adds credits for a payment leaves that
\* payment's Transaction completed (no handler returns with the credits
\* added and the Transaction pending or missing; nothing retries later).
GrantCompletesTransaction ==
  [][ (last'.op \in ReconcileOps
         /\ credits'[last'.chat] > credits[last'.chat])
        => transactions'[last'.pid].status = "completed" ]_vars

\* C14: a reconciliation step for a payment id that has no Transaction and
\* that the provider knows nothing about replies with the support-contact
\* message and changes no balance.
UnknownPaymentGrantsNothing ==
  [][ (last'.op \in ReconcileOps
         /\ transactions[last'.pid].status = "none"
         /\ provider[last'.pid].status = "none")
        => /\ credits' = credits
           /\ "contact_support" \in last'.replies ]_vars

\* C13: choosing a package creates a pending Transaction that holds the
\* package's credits for the buyer; when the provider has the payment as
\* paid and the buyer returns through a success deep link, that Transaction
\* becomes completed and the buyer's balance grows by exactly its credits.
PurchaseGrantsPackage ==
  [][ /\ \A p \in PaymentIds :
           (last'.op = "text:package" /\ transactions'[p] # transactions[p])
             => transactions'[p] =
                  [ status |-> "pending", owner |-> last'.chat,
                    credits |->
                      PackageCredits(user_data'[last'.chat].selected_package) ]
      /\ (last'.op \in {"start:success", "start:success_payment"}
            /\ provider[last'.pid].status = "paid"
            /\ transactions[last'.pid].status = "pending"
            /\ transactions[last'.pid].owner = last'.chat)
           => /\ transactions'[last'.pid].status = "completed"
              /\ credits'[last'.chat] =
                   credits[last'.chat] + transactions[last'.pid].credits
    ]_vars

\* C15: when a chat opens the success link of a payment that the provider
\* recorded for another chat, it is told to contact support, no balance
\* changes and no Transaction is completed.
MismatchGrantsNothing ==
  [][ (last'.op = "start:success"
         /\ last'.checked = "completed"
         /\ provider[last'.pid].owner # last'.chat)
        => /\ credits' = credits
           /\ transactions' = transactions
           /\ "contact_support" \in last'.replies ]_vars

\* C16: when a generative collaborator returns nothing or fails, the wait
\* flags and the customization state after the handler are those before
\* it, so that the next text reaches the same step.
FailedCalls == {"generation_failed", "background_failed", "replace_failed"}

FailureKeepsTheStep ==
  [][ (last'.gen \in {"empty", "raised"} \/ last'.replies \cap FailedCalls # {})
        => /\ WaitsOf(user_data'[last'.chat]) = WaitsOf(user_data[last'.chat])
           /\ user_data'[last'.chat].customization_state =
                user_data[last'.chat].customization_state ]_vars

\* C17: /try with a stored face shape and a balance below the cost replies
\* with the insufficient-credit message carrying that balance and the
\* cost, leaves every balance as it was and does not open the hairstyle
\* selection (the wait flag and the customization state keep their values).
InsufficientCreditIsRefused ==
  [][ (last'.op \in {"try", "callback:try_hairstyle"}
         /\ user_data[last'.chat].face_shape # 0
         /\ credits[last'.chat] < Cost)
        => /\ NotEnoughCreditsMessage(credits[last'.chat], 2) \in last'.replies
           /\ credits' = credits
           /\ user_data'[last'.chat].waiting_for_hairstyle_selection =
                user_data[last'.chat].waiting_for_hairstyle_selection
           /\ user_data'[last'.chat].customization_state =
                user_data[last'.chat].customization_state ]_vars

\* C17 witness: /try was refused for a chat with a face shape and balance 1.
RefusedWithOneCredit ==
  /\ last.op = "try"
  /\ user_data[last.chat].face_shape # 0
  /\ credits[last.chat] = 1
  /\ "not_enough_credits:credits=1,cost=2" \in last.replies

\* The routes of handle_text for a text that is not a command, and the
\* ghost names of the updates that are not commands.
TextRoutes ==
  { "payment_method", "digit5", "digit6", "digit7", "background_text",
    "replace_text", "package", "hairstyle", "text_prompt",
    "background_prompt", "fallback" }

NonCommandOps ==
  {"text:" \o r : r \in TextRoutes}
    \cup {"photo:" \o f : f \in {"2", "3", "4", "5", "6", "default"}}
    \cup {"video"}

PurchaseWaits == {"waiting_for_package_selection", "waiting_for_payment_method"}

\* C18: while a purchase wait flag is set, every update that is not a
\* command is handled by the purchase dialogue (package or payment-method
\* selection) and leaves current_feature as it was.
PurchaseOwnsTheUpdate ==
  [][ (last'.op \in NonCommandOps
         /\ WaitsOf(user_data[last'.chat]) \cap PurchaseWaits # {})
        => /\ last'.op \in {"text:package", "text:payment_method"}
           /\ user_data'[last'.chat].current_feature =
                user_data[last'.chat].current_feature ]_vars

\* C19: while exactly one wait flag is set and it is a feature's prompt
\* (text prompt, background prompt, hairstyle selection), a text is not
\* taken as one of the menu shortcuts 5, 6, 7 and does not change
\* current_feature.
FeaturePromptWaits ==
  { "waiting_for_text_prompt", "waiting_for_background_prompt",
    "waiting_for_hairstyle_selection" }

PromptBeatsMenuDigit ==
  [][ (last'.op \in {"text:" \o r : r \in TextRoutes}
         /\ Cardinality(WaitsOf(user_data[last'.chat])) = 1
         /\ WaitsOf(user_data[last'.chat]) \subseteq FeaturePromptWaits)
        => /\ last'.op \notin {"text:digit5", "text:digit6", "text:digit7"}
           /\ user_data'[last'.chat].current_feature =
                user_data[last'.chat].current_feature ]_vars

\* The session a feature-entry command leaves, by the menu number of its
\* feature: 1 /try, 2 /faceshape, 3 /symmetry, 4 /beauty, 7 text-to-image.
MenuEntrySession(t, s, bal) ==
  CASE t = "1" -> TryHairstyle(s, bal).s
    [] t = "2" -> FaceshapeSession(s)
    [] t = "3" -> SymmetrySession(s, "ok")
    [] t = "4" -> BeautySession(s)
    [] OTHER -> GenerateFromText(s, t, TRUE, "ok").s

\* C20: in a session with no wait flag set, a text that is the menu number
\* of a feature leaves the session that the feature's entry command would
\* leave.
MenuDigitEqualsCommand ==
  \A c \in Chats :
    WaitsOf(user_data[c]) = {} =>
      \A t \in {"1", "2", "3", "4", "7"} :
        TextSession(user_data[c], t, TRUE, "ok").s =
          MenuEntrySession(t, user_data[c], credits[c])

\* C21: a photo or a video that arrives while current_feature is None and
\* no purchase wait flag is set changes no field of the session (stored
\* image, face shape, landmarks, wait flags).
IdleMediaChangesNothing ==
  [][ (last'.op \in {"photo:default", "video"}
         /\ user_data[last'.chat].current_feature = "None"
         /\ WaitsOf(user_data[last'.chat]) \cap PurchaseWaits = {})
        => user_data'[last'.chat] = user_data[last'.chat] ]_vars

\* ------------------------------------------- try-on flows side by side
\* generate_hairstyle up to the call of face_analyzer.apply_hairstyle: the
\* worker has the text of the last selection step, has written the session
\* (flag cleared, customization_state) and waits for the collaborator.
GenerateHairstyleCall(w, c, t) ==
  LET s == Sess(c)
  IN /\ running[w].at # "apply_hairstyle"
     /\ TextRoute(s, t) = "hairstyle"
     /\ s.customization_state = "input_color_length"
     /\ s.image_data # 0
     /\ user_data' = [user_data EXCEPT ![c] = GenerateHairstyle(s, "ok", TRUE).s]
     /\ get_prompts' = TempGetPrompts
     /\ running' = [running EXCEPT ![w] =
                      [Idle EXCEPT !.at = "apply_hairstyle", !.chat = c,
                                   !.saved = get_prompts]]
     /\ last' = Did("generate:call", c, {"hairstyle_generating"})
     /\ UNCHANGED Ledger

\* generate_hairstyle from the return of apply_hairstyle on: an empty
\* result or an exception ends with the error reply, image bytes are
\* followed by use_credit(chat_id, "virtual_hairstyle", 2), whose answer
\* is not looked at, by get_user_credits and by the picture.
GenerateHairstyleReturn(w, res) ==
  LET c == running[w].chat
      after == IF res = "ok" THEN DbUseCredit(credits, c, Cost) ELSE credits
  IN /\ running[w].at = "apply_hairstyle"
     /\ credits' = after
     /\ get_prompts' = running[w].saved
     /\ running' = [running EXCEPT ![w] =
                      [Idle EXCEPT !.at = "returned", !.chat = c,
                                   !.read = DbGetUserCredits(after, c)]]
     /\ last' = [Did("generate:return", c,
                     IF res = "ok" THEN {"hairstyle_applied"} ELSE {"error"})
                   EXCEPT !.gen = res, !.charge = (res = "ok")]
     /\ UNCHANGED <<user_data, users, transactions, provider>>

\* A text of the selection dialogue that does not reach generate_hairstyle
SelectionText(c, t) ==
  /\ ~(TextRoute(Sess(c), t) = "hairstyle"
         /\ Sess(c).customization_state = "input_color_length")
  /\ HandleText(c, t, TRUE, "ok")

\* Two workers serve the updates of one chat: photo, /try and the
\* selection texts are short and run whole, a generation is split at the
\* collaborator's call.
NextTryOnWorkers ==
  \/ HandlePhoto(1, 1, "ok", "ok")
  \/ TryHairstyleCommand(1, "try")
  \/ \E t \in {"1", "abc"} : SelectionText(1, t)
  \/ \E w \in Workers, t \in {"1", "abc"} : GenerateHairstyleCall(w, 1, t)
  \/ \E w \in Workers, res \in ApiOutcomes : GenerateHairstyleReturn(w, res)

SpecTryOnWorkers == Init /\ [][NextTryOnWorkers]_vars

Free(w) == running[w].at \in {"idle", "returned", "granted"}

\* handle_stripe_payment up to the write of the Transaction: the query of
\* the existing Transaction and the request for the payment data, for a
\* caller of the method other than /start (no session write).
HandleStripePaymentBegin(w, c, p) ==
  LET done == transactions[p].status = "completed"
      k == IF StripeHasData(provider, p, FALSE)
             THEN PackageCredits(provider[p].pkg) ELSE DefaultCredits
  IN /\ Free(w)
     /\ UNCHANGED get_prompts
     /\ running' = [running EXCEPT ![w] =
          IF done THEN Idle
          ELSE [Idle EXCEPT !.at = "commit", !.handler = "handle_stripe_payment",
                            !.chat = c, !.pid = p, !.k = k,
                            !.found = (transactions[p].status # "none")]]
     /\ last' = DidPay("handle_stripe_payment:begin", c,
                       IF done THEN {"already_processed"} ELSE {},
                       "unchecked", p)
     /\ UNCHANGED <<user_data, Ledger>>

\* handle_stripe_payment, the write of the Transaction: the one found at
\* the beginning is set to completed, otherwise a completed one is created
\* for the user's row (no row: return False).
HandleStripePaymentCommit(w) ==
  LET r == running[w]
      nouser == ~r.found /\ r.chat \notin users
  IN /\ r.at = "commit"
     /\ transactions' =
          IF r.found THEN [transactions EXCEPT ![r.pid].status = "completed"]
          ELSE IF nouser THEN transactions
          ELSE [transactions EXCEPT ![r.pid] =
                  [status |-> "completed", owner |-> r.chat, credits |-> r.k]]
     /\ UNCHANGED get_prompts
     /\ running' = [running EXCEPT ![w] =
                      IF nouser THEN Idle
                      ELSE [r EXCEPT !.at = "get_user_credits"]]
     /\ last' = DidPay("handle_stripe_payment:commit", r.chat, {},
                       "unchecked", r.pid)
     /\ UNCHANGED <<user_data, credits, users, provider>>

\* start with `success_<id>` for an id that is no payment link, up to the
\* grant: the reset, the status request and the payment data.
StartSuccessBegin(w, c, p) ==
  LET status == StripeStatus(provider, p, FALSE)
      match == StripeHasData(provider, p, FALSE) /\ provider[p].owner = c
      k == IF status = "completed" /\ StripeHasData(provider, p, FALSE)
             THEN PackageCredits(provider[p].pkg) ELSE DefaultCredits
  IN /\ Free(w)
     /\ user_data' = [user_data EXCEPT ![c] = ResetAllWaitingStates(Sess(c))]
     /\ UNCHANGED get_prompts
     /\ running' = [running EXCEPT ![w] =
          IF status = "pending" THEN Idle
          ELSE [Idle EXCEPT !.at = "get_user_credits",
                            !.handler = IF status = "completed" /\ match
                                          THEN "start" ELSE "start:other",
                            !.chat = c, !.pid = p, !.k = k]]
     /\ last' = [DidPay("start:success:begin", c,
                        IF status = "pending" THEN {"payment_processing"}
                        ELSE {}, status, p)
                   EXCEPT !.was = <<Sess(c).current_feature, WaitsOf(Sess(c))>>]
     /\ UNCHANGED Ledger

\* current_credits = get_user_credits(chat_id)
GrantRead(w) ==
  LET r == running[w]
  IN /\ r.at = "get_user_credits"
     /\ UNCHANGED get_prompts
     /\ running' = [running EXCEPT ![w] =
                      [r EXCEPT !.at = "update_user_credits",
                                !.read = DbGetUserCredits(credits, r.chat)]]
     /\ last' = DidPay(r.handler \o ":read", r.chat, {}, "unchecked", r.pid)
     /\ UNCHANGED <<user_data, Ledger>>

\* update_user_credits(chat_id, current_credits + credits); start then
\* goes on to complete_transaction, handle_stripe_payment to its reply.
GrantWrite(w) ==
  LET r == running[w]
  IN /\ r.at = "update_user_credits"
     /\ r.read + r.k <= MaxBalance
     /\ credits' = DbUpdateUserCredits(credits, users, r.chat, r.read + r.k)
     /\ UNCHANGED get_prompts
     /\ running' = [running EXCEPT ![w] =
                      IF r.handler = "start"
                        THEN [r EXCEPT !.at = "complete_transaction"]
                        ELSE [Idle EXCEPT !.at = "granted", !.pid = r.pid]]
     /\ last' = DidPay(r.handler \o ":write", r.chat,
                       IF r.handler = "start" THEN {} ELSE {"payment_success"},
                       "unchecked", r.pid)
     /\ UNCHANGED <<user_data, users, transactions, provider>>

\* start: complete_transaction(session_id, 'completed') and the reply
StartSuccessComplete(w) ==
  LET r == running[w]
  IN /\ r.at = "complete_transaction"
     /\ InBounds(DbCompleteCredits(credits, transactions, r.pid, TRUE))
     /\ credits' = DbCompleteCredits(credits, transactions, r.pid, TRUE)
     /\ transactions' = DbCompleteTx(transactions, r.pid, TRUE)
     /\ UNCHANGED get_prompts
     /\ running' = [running EXCEPT ![w] =
                      [Idle EXCEPT !.at = "granted", !.pid = r.pid]]
     /\ last' = DidPay("start:complete", r.chat, {"payment_success"},
                       "unchecked", r.pid)
     /\ UNCHANGED <<user_data, users, provider>>

\* One card purchase of chat 1, paid at the provider, and two workers that
\* reconcile its id: through the deep link and through
\* handle_stripe_payment called for the same id.
NextPayWorkers ==
  \/ BuyCreditsCommand(1, TRUE)
  \/ HandleText(1, "2", TRUE, "ok")
  \/ ProviderSettle("cs_1", "paid")
  \/ \E w \in Workers : HandleStripePaymentBegin(w, 1, "cs_1")
  \/ \E w \in Workers : HandleStripePaymentCommit(w)
  \/ \E w \in Workers : StartSuccessBegin(w, 1, "cs_1")
  \/ \E w \in Workers : GrantRead(w)
  \/ \E w \in Workers : GrantWrite(w)
  \/ \E w \in Workers : StartSuccessComplete(w)

SpecPayWorkers == InitEmpty /\ [][NextPayWorkers]_vars

\* C23: when two reconciliations of one paid payment id run side by side,
\* the write of a grant adds the credits to the balance as it is at that
\* moment (no other grant falls between its read and its write), and no
\* grant is written for an id another reconciliation has already granted.
GrantedOnceAndWhole ==
  [][ \A w \in Workers :
        ( /\ running[w].at = "update_user_credits"
          /\ running'[w].at # "update_user_credits"
          /\ provider[running[w].pid].status = "paid"
          /\ running[w].chat \in users )
        => /\ credits'[running[w].chat]
                = credits[running[w].chat] + running[w].k
           /\ \A v \in Workers \ {w} :
                ~( /\ running[v].at \in {"granted", "complete_transaction"}
                   /\ running[v].pid = running[w].pid ) ]_vars

\* --------------------------------------------- photos after one another
\* The photos a chat sends; a stored face shape or set of landmarks carries
\* the number of the photo it was computed from.
Images == {1, 2}

\* Two different photos, each for the feature that is active when it
\* arrives, the commands that enter a photo feature, /try and the texts of
\* the hairstyle selection.
NextPhotos ==
  \/ FaceshapeCommand(1)
  \/ SymmetryCommand(1)
  \/ BeautyCommand(1)
  \/ TryHairstyleCommand(1, "try")
  \/ \E img \in Images, res \in {"ok", "no_face"} : HandlePhoto(1, img, res, "ok")
  \/ \E t \in {"1", "5", "abc"}, api \in {"ok", "empty"} : HandleText(1, t, TRUE, api)

SpecPhotos == Init /\ [][NextPhotos]_vars

\* C24: whenever hairstyle generation calls its collaborator, the stored
\* face shape and the landmarks it passes on were computed from the image
\* that is stored at that moment.
GenerationUsesCurrentPhoto ==
  [][ last'.gen # "none"
        => /\ user_data[last'.chat].face_shape = user_data[last'.chat].image_data
           /\ user_data'[last'.chat].landmarks
                \in {0, user_data[last'.chat].image_data} ]_vars

\* C25: a step that needs a stored field which is absent (the stored image
\* at the last step of the hairstyle selection or at a colour button)
\* answers by asking for the missing input and not with an error reply.
MissingFieldIsAskedFor ==
  [][ /\ ( /\ last'.op = "text:hairstyle"
           /\ user_data[last'.chat].customization_state = "input_color_length"
           /\ user_data[last'.chat].image_data = 0 )
         => (last'.replies # {} /\ "error" \notin last'.replies)
      /\ ( /\ last'.op = "callback:bg"
           /\ user_data[last'.chat].image_data = 0 )
         => (last'.replies # {} /\ "background_error" \notin last'.replies) ]_vars

\* The replies of a selection step that refuses its input
InvalidReplies == {"invalid_payment_method", "invalid_package", "invalid_choice"}

\* The menu digits no package list, payment-method list or gender list has
DigitOps == {"text:digit5", "text:digit6", "text:digit7"}

\* C26: a text that is no valid choice at the selection step the chat is in
\* (refused by the step, or a number above the range of the package or
\* gender list) leaves the wait flags, current_feature and the
\* customization state as they were.
InvalidChoiceChangesNothing ==
  [][ LET s == user_data[last'.chat]
          s2 == user_data'[last'.chat]
          refused == last'.replies \cap InvalidReplies # {}
          above == /\ last'.op \in DigitOps
                   /\ \/ s.waiting_for_package_selection
                      \/ /\ s.waiting_for_hairstyle_selection
                         /\ s.customization_state
                              \in {"absent", "selecting_gender"}
      IN (refused \/ above)
           => /\ WaitsOf(s2) = WaitsOf(s)
              /\ s2.current_feature = s.current_feature
              /\ s2.customization_state = s.customization_state ]_vars

\* C27: when an exception is raised while an update is handled (the
\* hairstyle collaborator raises, or the stored image is missing when the
\* generation reads it), the session afterwards equals the session before
\* and the generic apology is sent.
ExceptionLeavesSessionAlone ==
  [][ ( /\ last'.op = "text:hairstyle"
        /\ \/ last'.gen = "raised"
           \/ /\ user_data[last'.chat].customization_state = "input_color_length"
              /\ user_data[last'.chat].image_data = 0 )
      => /\ user_data'[last'.chat] = user_data[last'.chat]
         /\ "error" \in last'.replies ]_vars

\* ------------------------------------------------- updates of every kind
\* Texts (one of them starts with '/' and is no registered command), photos
\* with every analyser outcome, videos, both kinds of inline button, and
\* the commands that open a dialogue.
UpdateTexts == {"/x", "1", "5", "abc"}

NextUpdates ==
  \/ \E t \in UpdateTexts, b \in BOOLEAN : HandleText(1, t, b, "ok")
  \/ \E res \in PhotoOutcomes : HandlePhoto(1, 1, res, "ok")
  \/ \E long \in BOOLEAN : HandleVideo(1, long)
  \/ HandleBackgroundCallback(1, "ok")
  \/ \E via \in {"try", "callback:try_hairstyle"} : TryHairstyleCommand(1, via)
  \/ FaceshapeCommand(1)
  \/ BeautyCommand(1)
  \/ \E b \in BOOLEAN : BuyCreditsCommand(1, b)

SpecUpdates == Init /\ [][NextUpdates]_vars

\* C28: every update that is handled (text, photo, video, button, command)
\* is answered with at least one reply, and a text that matches no rule
\* is answered with the fallback help.
EveryUpdateIsAnswered ==
  [][ /\ last'.replies # {}
      /\ last'.op = "text:fallback" => "fallback_help" \in last'.replies ]_vars

\* ------------------------------------------- Transactions that have ended
\* The repository's payment bookkeeping outside this file closes a pending
\* Transaction whose payment was canceled or has expired at the provider.
TransactionLapses(p) ==
  /\ transactions[p].status = "pending"
  /\ provider[p].status \in {"canceled", "expired"}
  /\ transactions' = [transactions EXCEPT ![p].status = provider[p].status]
  /\ last' = Did("lapse", 0, {})
  /\ UNCHANGED <<user_data, credits, users, provider>>
  /\ UNCHANGED <<running, get_prompts>>

\* Purchases of chat 1 by card or crypto, every end a payment can take at
\* the provider, the closing of the Transaction, and every reconciliation
\* entry point for the ids the provider has handed out.
NextTerminal ==
  \/ BuyCreditsCommand(1, TRUE)
  \/ \E t \in PurchaseTexts : HandleText(1, t, TRUE, "ok")
  \/ \E p \in StripeIds \cup CryptoIds, st \in {"paid", "canceled", "expired"} :
       ProviderSettle(p, st)
  \/ \E p \in StripeIds \cup CryptoIds : TransactionLapses(p)
  \/ \E kind \in {"success_payment", "success"}, p \in StripeIds \cup CryptoIds :
       provider[p].status # "none" /\ Start(1, kind, p, Smooth)
  \/ \E p \in StripeIds \cup CryptoIds :
       provider[p].status # "none" /\ HandleSuccessfulPayment(1, p, Smooth)

SpecTerminal == InitEmpty /\ [][NextTerminal]_vars

CustomizationOnlyDuringTryOn ==
  \A c \in AllChats :
    user_data[c].customization_state # "absent"
      => /\ user_data[c].waiting_for_hairstyle_selection
         /\ user_data[c].current_feature = "None"

\* C31: a photo in which no face is found is answered with the 'no face'
\* reply and leaves the session of the chat as it was.
NoFaceChangesNothing ==
  [][ ( /\ last'.op \in {"photo:" \o f : f \in {"2", "3", "4", "default"}}
        /\ "no_face" \in last'.replies )
      => user_data'[last'.chat] = user_data[last'.chat] ]_vars

\* ------------------------------------------------ every kind of operation
\* Chat 1 with Stripe configured and a smooth environment, the database
\* without balances: commands, the menu and selection texts, photos, a
\* crypto purchase that is paid, and the reconciliation entry points for
\* its id.
LedgerTexts == {"1", "7", "abc"}

NextLedger ==
  \/ ResetCommand(1)
  \/ CreditsCommand(1)
  \/ FaceshapeCommand(1)
  \/ TryHairstyleCommand(1, "try")
  \/ BuyCreditsCommand(1, TRUE)
  \/ \E t \in LedgerTexts, api \in {"ok", "empty"} : HandleText(1, t, TRUE, api)
  \/ HandlePhoto(1, 1, "ok", "ok")
  \/ ProviderSettle("inv_1", "paid")
  \/ Start(1, "success", "inv_1", Smooth)
  \/ HandleSuccessfulPayment(1, "inv_1", Smooth)

SpecLedger == InitEmpty /\ [][NextLedger]_vars

\* C32: a balance changes only in a successful hairstyle generation, which
\* takes the cost from the chat's balance, and in a payment reconciliation,
\* which only adds; every other operation leaves every balance as it was.
BalanceChangesOnlyInLedgerSteps ==
  [][ credits' # credits
        => \/ /\ last'.op = "text:hairstyle"
              /\ last'.gen = "ok"
              /\ credits' = [credits EXCEPT ![last'.chat] = @ - Cost]
           \/ /\ last'.op \in ReconcileOps
              /\ \A c \in AllChats : credits'[c] >= credits[c] ]_vars

\* A generation has been charged after a purchase was paid and reconciled
ChargedAfterPurchase ==
  /\ last.op = "text:hairstyle" /\ last.gen = "ok" /\ last.charge
  /\ transactions["inv_1"].status = "completed"

\* ------------------------------------------------------------ two chats
\* Both chats send the updates of the try-on flow, the commands that
\* reset, and /start, in any order.
NextTwoChats ==
  \E c \in AllChats :
    \/ ResetCommand(c)
    \/ BeautyCommand(c)
    \/ TryHairstyleCommand(c, "try")
    \/ HandlePhoto(c, 1, "ok", "ok")
    \/ \E t \in {"1", "abc"} : HandleText(c, t, TRUE, "ok")
    \/ Start(c, "plain", "pl_1", Smooth)

SpecTwoChats == Init /\ [][NextTwoChats]_vars

\* C33: handling an update of one chat leaves the session of every other
\* chat as it was.
OtherSessionsUntouched ==
  [][ \A b \in AllChats :
        b # last'.chat => user_data'[b] = user_data[b] ]_vars

\* Chat 1 has just reset while chat 2 is in the middle of its selection
ResetBesideSelection ==
  /\ last.op = "reset" /\ last.chat = 1
  /\ user_data[2].waiting_for_hairstyle_selection
  /\ user_data[2].customization_state = "selecting_style"

\* ----------------------------------------------- a grant that fails late
\* handle_stripe_payment when update_user_credits raises: the completed
\* status is already committed, the inner except rolls back nothing and
\* re-raises, the outer except sends the support message and returns False.
GrantWriteFails(w) ==
  LET r == running[w]
  IN /\ r.at = "update_user_credits"
     /\ r.handler = "handle_stripe_payment"
     /\ UNCHANGED get_prompts
     /\ running' = [running EXCEPT ![w] = Idle]
     /\ last' = DidPay("handle_stripe_payment:failed", r.chat,
                       {"contact_support"}, "unchecked", r.pid)
     /\ UNCHANGED <<user_data, Ledger>>

\* One card purchase of chat 1, paid at the provider, reconciled through
\* handle_stripe_payment, whose balance write succeeds or raises.
NextGrant ==
  \/ BuyCreditsCommand(1, TRUE)
  \/ HandleText(1, "2", TRUE, "ok")
  \/ ProviderSettle("cs_1", "paid")
  \/ \E w \in Workers : HandleStripePaymentBegin(w, 1, "cs_1")
  \/ \E w \in Workers : HandleStripePaymentCommit(w)
  \/ \E w \in Workers : GrantRead(w)
  \/ \E w \in Workers : GrantWrite(w)
  \/ \E w \in Workers : GrantWriteFails(w)

SpecGrant == InitEmpty /\ [][NextGrant]_vars

\* C34: when no reconciliation is under way, the owner of every completed
\* Transaction has been given its credits (the balances start at zero and
\* nothing here takes credits away).
CompletedMeansGranted ==
  \A p \in PaymentIds :
    (transactions[p].status = "completed" /\ \A w \in Workers : Free(w))
      => credits[transactions[p].owner] >= transactions[p].credits

\* The session is awaiting the hairstyle selection at step `st`
AtStep(s, st) ==
  s.waiting_for_hairstyle_selection /\ s.customization_state = st

\* C35: the hairstyle selection advances one step at a time.  It is opened
\* only by try_hairstyle_command, at the gender step; the style step is
\* entered only from the gender step and the colour step only from the
\* style step, each by a text of the selection; and the collaborator is
\* called only by a text that arrives at the colour step.
SelectionStepsInOrder ==
  [][ LET s == user_data[last'.chat]
          s2 == user_data'[last'.chat]
      IN /\ last'.gen # "none"
              => (last'.op = "text:hairstyle" /\ AtStep(s, "input_color_length"))
         /\ (AtStep(s2, "input_color_length") /\ ~AtStep(s, "input_color_length"))
              => (last'.op = "text:hairstyle" /\ AtStep(s, "selecting_style"))
         /\ (AtStep(s2, "selecting_style") /\ ~AtStep(s, "selecting_style"))
              => (last'.op = "text:hairstyle" /\ AtStep(s, "selecting_gender"))
         /\ (s2.waiting_for_hairstyle_selection
               /\ ~s.waiting_for_hairstyle_selection)
              => ( /\ last'.op \in {"try", "callback:try_hairstyle"}
                   /\ s2.customization_state = "selecting_gender" )
         /\ last'.op \in {"try", "callback:try_hairstyle"}
              => ~AtStep(s2, "selecting_style") /\ ~AtStep(s2, "input_color_length")
    ]_vars

\* The collaborator has been called at the end of a selection
GeneratedAfterSelection ==
  /\ last.op = "text:hairstyle" /\ last.gen # "none"
  /\ user_data[last.chat].customization_state = "selecting_style"
  /\ ~user_data[last.chat].waiting_for_hairstyle_selection

\* ------------------------------------------------------------------
\* Purchases through both providers: /buy, the selection texts (valid,
\* out of range, not a number), the provider answering or failing, /reset
\* between the steps, and the provider settling a payment.
PackageTexts == {"1", "2", "4", "abc"}

NextPurchase ==
  \E c \in Chats :
    \/ \E b \in BOOLEAN : BuyCreditsCommand(c, b)
    \/ \E t \in PackageTexts, b \in BOOLEAN : HandleText(c, t, b, "ok")
    \/ ResetCommand(c)
    \/ \E p \in StripeIds \cup CryptoIds : ProviderSettle(p, "paid")

SpecPurchase == InitEmpty /\ [][NextPurchase]_vars

\* Payment ids whose Transaction is written by the step
Written == {p \in PaymentIds : transactions'[p] # transactions[p]}

UnknownColourUsesWhite ==
  [][ ( /\ last'.op \in {"text:background_text", "text:background_prompt"}
        /\ user_data[last'.chat].image_data # 0
        /\ "background_unavailable" \notin last'.replies )
      => ( /\ "choose_background" \notin last'.replies
           /\ last'.replies \cap {"background_result", "background_failed"} # {} )
    ]_vars

\* ------------------------------------------------------------------
\* C38: no session is ever at the length step or the texture step of the
\* hairstyle selection.
LengthAndTextureUnreachable ==
  \A c \in AllChats :
    user_data[c].customization_state \notin {"selecting_length", "selecting_texture"}

\* A selection has passed the style step and waits for the colour text
AwaitingColourText ==
  /\ last.op = "text:hairstyle" /\ "enter_color_length" \in last.replies
  /\ AtStep(user_data[last.chat], "input_color_length")

\* ------------------------------------------------------------------
\* C39: /reset leaves the chat without any session field and changes no
\* balance and no Transaction; a /try that follows it is answered with
\* "no photo analysed yet" and opens no hairstyle selection.
ResetForgetsSession ==
  [][ /\ last'.op = "reset"
           => ( /\ user_data'[last'.chat] = EmptySession
                /\ credits' = credits
                /\ transactions' = transactions )
      /\ ( /\ last.op = "reset"
           /\ last'.op \in {"try", "callback:try_hairstyle"}
           /\ last'.chat = last.chat )
           => ( /\ last'.replies = {"no_photo_yet"}
                /\ user_data'[last'.chat] = EmptySession ) ]_vars

\* /reset has been handled for a chat that could afford a try-on
ResetWithCredits ==
  /\ last.op = "reset"
  /\ credits[last.chat] >= Cost
  /\ user_data[last.chat] = EmptySession

\* ------------------------------------------------------------------
\* C40: whenever no generation is under way, the shared collaborator's
\* get_hairstyle_prompts_by_face_shape is the original function: every
\* return of generate_hairstyle, by a picture, by an empty result or by an
\* exception, has put it back.
OverrideNeverLeftInstalled == get_prompts = "original"

\* A generation has ended by an exception of the collaborator
GenerationRaised ==
  /\ last.op = "text:hairstyle" /\ last.gen = "raised"
  /\ "error" \in last.replies

====
